---- MODULE Spec2Model ----
(***************************************************************************)
(* A model of src/src/strategy.py: the TradingStrategy class.              *)
(*                                                                         *)
(* Numbers.  The program computes in IEEE double precision through pandas  *)
(* and numpy.  A number is modelled as a pair <<n, d>>: an exact reduced   *)
(* fraction n/d with d > 0, or one of the three special values the         *)
(* program's divisions produce, NaN = <<0, 0>>, +inf = <<1, 0>> and        *)
(* -inf = <<-1, 0>>.  Rounding and the sign of zero are not modelled.      *)
(*                                                                         *)
(* Tables.  A DataFrame is a function from column names to columns, every  *)
(* column a sequence of numbers with one entry per bar (bar 0 of the       *)
(* program is index 1 here).                                               *)
(***************************************************************************)
EXTENDS Integers, Sequences, FiniteSets, TLC

\* ------------------------------------------------------------------ bounds
MaxBars == 3
MaxPrice == 2
MaxWindow == 2
MaxCapital == 1
ShortBars == 1
MaxSpan == 1

\* ----------------------------------------------------------------- numbers
NaN == <<0, 0>>
PosInf == <<1, 0>>
NegInf == <<-1, 0>>

Abs(x) == IF x < 0 THEN -x ELSE x

Sign(x) == IF x > 0 THEN 1 ELSE IF x < 0 THEN -1 ELSE 0

RECURSIVE Gcd(_, _)
Gcd(a, b) == IF b = 0 THEN a ELSE Gcd(b, a % b)

\* n/d as a number: a zero divisor gives NaN (0/0) or a signed infinity.
Rat(n, d) ==
    IF d = 0 THEN <<Sign(n), 0>>
    ELSE LET g == Gcd(Abs(n), Abs(d))
             s == Sign(d)
         IN  <<(s * n) \div g, (s * d) \div g>>

Num(i) == <<i, 1>>

IsNaN(x) == x = NaN

IsInf(x) == x[2] = 0 /\ x[1] # 0

IsFinite(x) == x[2] # 0

Neg(x) == <<-x[1], x[2]>>

Add(a, b) ==
    IF IsNaN(a) \/ IsNaN(b) THEN NaN
    ELSE IF IsInf(a) THEN (IF IsInf(b) /\ b # a THEN NaN ELSE a)
    ELSE IF IsInf(b) THEN b
    ELSE Rat(a[1] * b[2] + b[1] * a[2], a[2] * b[2])

Sub(a, b) == Add(a, Neg(b))

Mul(a, b) ==
    IF IsNaN(a) \/ IsNaN(b) THEN NaN
    ELSE Rat(a[1] * b[1], a[2] * b[2])

Div(a, b) ==
    IF IsNaN(a) \/ IsNaN(b) THEN NaN
    ELSE IF IsInf(b) THEN (IF IsInf(a) THEN NaN ELSE Num(0))
    ELSE IF IsInf(a) THEN (IF b[1] < 0 THEN Neg(a) ELSE a)
    ELSE Rat(a[1] * b[2], a[2] * b[1])

\* a < b as the program's comparisons decide it: false when either is NaN.
Lt(a, b) ==
    /\ ~IsNaN(a)
    /\ ~IsNaN(b)
    /\ a # b
    /\ IF a = NegInf \/ b = PosInf THEN TRUE
       ELSE IF a = PosInf \/ b = NegInf THEN FALSE
       ELSE a[1] * b[2] < b[1] * a[2]

Gt(a, b) == Lt(b, a)

Le(a, b) == ~IsNaN(a) /\ ~IsNaN(b) /\ (a = b \/ Lt(a, b))

\* ----------------------------------------------------------------- columns
\* The entries of a column that hold a value (pandas skips NaN).
Defined(col) == {i \in 1..Len(col) : ~IsNaN(col[i])}

RECURSIVE SumOver(_, _)
SumOver(col, S) ==
    IF S = {} THEN Num(0)
    ELSE LET i == CHOOSE j \in S : TRUE
         IN  Add(col[i], SumOver(col, S \ {i}))

RECURSIVE ProdOver(_, _)
ProdOver(col, S) ==
    IF S = {} THEN Num(1)
    ELSE LET i == CHOOSE j \in S : TRUE
         IN  Mul(col[i], ProdOver(col, S \ {i}))

\* The least and the greatest of the entries S of a column, S non-empty.
MinOver(col, S) == col[CHOOSE i \in S : \A j \in S : Le(col[i], col[j])]

MaxOver(col, S) == col[CHOOSE i \in S : \A j \in S : Le(col[j], col[i])]

\* Series.rolling(window=w).mean(): min_periods is w, so an entry has a value
\* only when its trailing window holds w values; a window of 0 bars has none.
RollingMean(col, w) ==
    [t \in 1..Len(col) |->
        LET win == {i \in 1..Len(col) : t - w < i /\ i <= t}
        IN  IF w <= 0 \/ t < w \/ (win \cap Defined(col)) # win THEN NaN
            ELSE Div(SumOver(col, win), Num(w))]

\* Series.diff(): the first entry has no predecessor.
SeriesDiff(col) ==
    [t \in 1..Len(col) |-> IF t = 1 THEN NaN ELSE Sub(col[t], col[t - 1])]

\* Series.shift(1)
SeriesShift(col) ==
    [t \in 1..Len(col) |-> IF t = 1 THEN NaN ELSE col[t - 1]]

\* Series.pct_change()
PctChange(col) ==
    [t \in 1..Len(col) |->
        IF t = 1 THEN NaN ELSE Sub(Div(col[t], col[t - 1]), Num(1))]

\* Series.cumprod(): the running product of the values, NaN where the entry is.
CumProd(col) ==
    [t \in 1..Len(col) |->
        IF IsNaN(col[t]) THEN NaN
        ELSE ProdOver(col, {i \in Defined(col) : i <= t})]

\* Series.expanding().max(): the running maximum of the values seen so far.
ExpandingMax(col) ==
    [t \in 1..Len(col) |->
        LET seen == {i \in Defined(col) : i <= t}
        IN  IF seen = {} THEN NaN ELSE MaxOver(col, seen)]

\* Series.min(), Series.mean(): over the values, NaN when there is none.
SeriesMin(col) ==
    IF Defined(col) = {} THEN NaN ELSE MinOver(col, Defined(col))

SeriesMean(col) ==
    IF Defined(col) = {} THEN NaN
    ELSE Div(SumOver(col, Defined(col)), Num(Cardinality(Defined(col))))

\* The square of Series.std(): the sample variance (ddof = 1) of the values.
SeriesVar(col) ==
    LET D == Defined(col)
        k == Cardinality(D)
        m == SeriesMean(col)
        sq == [i \in 1..Len(col) |->
                 IF i \in D THEN Mul(Sub(col[i], m), Sub(col[i], m)) ELSE NaN]
    IN  IF k = 0 THEN NaN ELSE Div(SumOver(sq, D), Num(k - 1))

\* Series.rolling(window=w).std() squared: the sample variance (ddof = 1) of
\* the trailing window, with the same min_periods rule as the mean.
RollingVar(col, w) ==
    [t \in 1..Len(col) |->
        LET win == {i \in 1..Len(col) : t - w < i /\ i <= t}
            m == Div(SumOver(col, win), Num(w))
            sq == [i \in 1..Len(col) |-> Mul(Sub(col[i], m), Sub(col[i], m))]
        IN  IF w <= 0 \/ t < w \/ (win \cap Defined(col)) # win THEN NaN
            ELSE Div(SumOver(sq, win), Num(w - 1))]

\* Series.ewm(span=s).mean() with pandas' default adjust=True: the average of
\* the bars so far weighted by (1 - alpha)^age, alpha = 2 / (s + 1).  The
\* weighted sum and the sum of the weights are accumulated bar by bar.
RECURSIVE EwmSum(_, _, _)
EwmSum(col, q, t) ==
    IF t = 0 THEN Num(0) ELSE Add(col[t], Mul(q, EwmSum(col, q, t - 1)))

RECURSIVE EwmWeight(_, _)
EwmWeight(q, t) ==
    IF t = 0 THEN Num(0) ELSE Add(Num(1), Mul(q, EwmWeight(q, t - 1)))

EwmMean(col, s) ==
    [t \in 1..Len(col) |->
        Div(EwmSum(col, Sub(Num(1), Rat(2, s + 1)), t),
            EwmWeight(Sub(Num(1), Rat(2, s + 1)), t))]

\* ------------------------------------------------------------------ tables
\* data['name'] = col
SetCol(df, name, col) ==
    [c \in DOMAIN df \cup {name} |-> IF c = name THEN col ELSE df[c]]

NumBars(df) == Len(df["Close"])

\* A column holding the same value on every bar (data['name'] = value).
ConstCol(df, v) == [t \in 1..NumBars(df) |-> v]

\* DataFrameCopy without the copy: the local name stays bound to the
\* caller's table.
DataFrameAlias(df) == [obj |-> "caller", val |-> df]

\* data.copy(): another object holding the same columns.
DataFrameCopy(df) == [obj |-> "copy", val |-> df]

\* What the caller's table holds after a stage that bound its local name to
\* `d` and left `final` in it.
CallerTable(d, data, final) == IF d.obj = "copy" THEN data ELSE final

\* --------------------------------------------------------------- indicators
\* calculate_moving_averages
MovingAverages(data, sw, lw) ==
    LET d == DataFrameCopy(data)
        t1 == SetCol(d.val, "SMA_short", RollingMean(d.val["Close"], sw))
        t2 == SetCol(t1, "SMA_long", RollingMean(t1["Close"], lw))
    IN  [ret |-> t2, arg |-> CallerTable(d, data, t2)]

\* delta.where(delta > 0, 0) and -delta.where(delta < 0, 0): the bar-to-bar
\* gain and loss; the first bar, whose delta is NaN, fails both tests.
GainOf(delta) ==
    [t \in 1..Len(delta) |-> IF Gt(delta[t], Num(0)) THEN delta[t] ELSE Num(0)]

LossOf(delta) ==
    [t \in 1..Len(delta) |->
        IF Lt(delta[t], Num(0)) THEN Neg(delta[t]) ELSE Num(0)]

RsiOf(gain, loss) ==
    LET rs == Div(gain, loss)
    IN  Sub(Num(100), Div(Num(100), Add(Num(1), rs)))

\* calculate_rsi
Rsi(data, period) ==
    LET d == DataFrameCopy(data)
        delta == SeriesDiff(d.val["Close"])
        gain == RollingMean(GainOf(delta), period)
        loss == RollingMean(LossOf(delta), period)
        t1 == SetCol(d.val, "RSI",
                     [t \in 1..Len(delta) |-> RsiOf(gain[t], loss[t])])
    IN  [ret |-> t1, arg |-> CallerTable(d, data, t1)]

ColSub(a, b) == [t \in 1..Len(a) |-> Sub(a[t], b[t])]

\* calculate_macd; pandas rejects a span below 1 with a ValueError, raised by
\* the first ewm call that is handed one.
Macd(data, fast, slow, signal) ==
    LET d == DataFrameCopy(data)
        t1 == SetCol(d.val, "EMA_fast", EwmMean(d.val["Close"], fast))
        t2 == SetCol(t1, "EMA_slow", EwmMean(t1["Close"], slow))
        t3 == SetCol(t2, "MACD", ColSub(t2["EMA_fast"], t2["EMA_slow"]))
        t4 == SetCol(t3, "Signal_line", EwmMean(t3["MACD"], signal))
        t5 == SetCol(t4, "MACD_hist", ColSub(t4["MACD"], t4["Signal_line"]))
    IN  IF fast < 1
        THEN [err |-> "ValueError", ret |-> d.val,
              arg |-> CallerTable(d, data, d.val)]
        ELSE IF slow < 1
        THEN [err |-> "ValueError", ret |-> t1, arg |-> CallerTable(d, data, t1)]
        ELSE IF signal < 1
        THEN [err |-> "ValueError", ret |-> t3, arg |-> CallerTable(d, data, t3)]
        ELSE [err |-> "none", ret |-> t5, arg |-> CallerTable(d, data, t5)]

\* A band value mid + sqrt(sq) (upper) or mid - sqrt(sq) (lower), kept as the
\* pair of its middle and its squared half-width: the square root of a
\* fraction is not a fraction.
Band(mid, sq) == IF IsNaN(mid) \/ IsNaN(sq) THEN NaN \o NaN ELSE mid \o sq

\* calculate_bollinger_bands; sq is (bb_std * std_dev)^2
BollingerBands(data, period, std_dev) ==
    LET d == DataFrameCopy(data)
        t1 == SetCol(d.val, "BB_middle", RollingMean(d.val["Close"], period))
        bb_var == RollingVar(t1["Close"], period)
        band == [t \in 1..NumBars(t1) |->
                   Band(t1["BB_middle"][t],
                        Mul(bb_var[t], Num(std_dev * std_dev)))]
        t2 == SetCol(t1, "BB_upper", band)
        t3 == SetCol(t2, "BB_lower", band)
    IN  [ret |-> t3, arg |-> CallerTable(d, data, t3)]

\* ----------------------------------------------------------------- signals
\* data.loc[data['SMA_short'] > data['SMA_long'], 'Signal'] = 1
CrossAbove(sig, short, long) ==
    [t \in 1..Len(sig) |-> IF Gt(short[t], long[t]) THEN Num(1) ELSE sig[t]]

\* CrossBelow marking every bar that is not above, as np.where(short > long,
\* 1, -1) would: the bars without an average become -1.
CrossBelowElse(sig, short, long) ==
    [t \in 1..Len(sig) |-> IF Gt(short[t], long[t]) THEN sig[t] ELSE Num(-1)]

\* CrossBelow with < for <=: a tie keeps the initial 0.
CrossBelowStrict(sig, short, long) ==
    [t \in 1..Len(sig) |-> IF Lt(short[t], long[t]) THEN Num(-1) ELSE sig[t]]

\* data.loc[data['SMA_short'] <= data['SMA_long'], 'Signal'] = -1
CrossBelow(sig, short, long) ==
    [t \in 1..Len(sig) |-> IF Le(short[t], long[t]) THEN Num(-1) ELSE sig[t]]

\* generate_signals: err is the exception the call ends with ("none" when it
\* returns), ret the table it returns and caches in self.signals.
GenerateSignals(data) ==
    LET d == DataFrameCopy(data)
        t1 == SetCol(d.val, "Signal", ConstCol(d.val, Num(0)))
        t2 == SetCol(t1, "Position", ConstCol(t1, Num(0)))
        t3 == SetCol(t2, "Signal",
                     CrossAbove(t2["Signal"], t2["SMA_short"], t2["SMA_long"]))
        t4 == SetCol(t3, "Signal",
                     CrossBelow(t3["Signal"], t3["SMA_short"], t3["SMA_long"]))
        t5 == SetCol(t4, "Position", SeriesDiff(t4["Signal"]))
    IN  IF {"SMA_short", "SMA_long"} \subseteq DOMAIN data
        THEN [err |-> "none", ret |-> t5, arg |-> CallerTable(d, data, t5)]
        ELSE [err |-> "KeyError", ret |-> t2, arg |-> CallerTable(d, data, t2)]

\* StrategyReturns without the shift: the signal of the bar itself.
StrategyReturnsNoLag(signal, returns) ==
    [t \in 1..Len(returns) |-> Mul(signal[t], returns[t])]

\* ---------------------------------------------------------------- backtest
\* data['Signal'].shift(1) * data['Returns']
StrategyReturns(signal, returns) ==
    LET lagged == SeriesShift(signal)
    IN  [t \in 1..Len(returns) |-> Mul(lagged[t], returns[t])]

\* CumulativeReturns without the 1 +: the product of the bare returns.
CumulativeReturnsBare(sr) == CumProd(sr)

\* (1 + data['Strategy_returns']).cumprod()
CumulativeReturns(sr) ==
    CumProd([t \in 1..Len(sr) |-> Add(Num(1), sr[t])])

\* initial_capital * data['Cumulative_returns']
PortfolioValue(capital, cum) ==
    [t \in 1..Len(cum) |-> Mul(Num(capital), cum[t])]

\* The drawdown column and its minimum.
Drawdown(pv) ==
    LET cummax == ExpandingMax(pv)
    IN  [t \in 1..Len(pv) |-> Div(Sub(pv[t], cummax[t]), cummax[t])]

MaxDrawdown(pv) == SeriesMin(Drawdown(pv))

\* The result set of backtest.  The two metrics that hold a square root are
\* kept squared: annual_volatility_sq is annual_volatility^2 (the variance
\* times 252) and sharpe_ratio_sq is sharpe_ratio * |sharpe_ratio|.
Metrics(capital, sr, pv) ==
    LET last_pv == pv[Len(pv)]
        annual_return == Mul(SeriesMean(sr), Num(252))
        annual_var == Mul(SeriesVar(sr), Num(252))
        sharpe_sq == IF Gt(annual_var, Num(0))
                     THEN Div(Mul(annual_return,
                                  Mul(annual_return,
                                      Num(Sign(annual_return[1])))),
                              annual_var)
                     ELSE Num(0)
    IN  [total_return |-> Div(Sub(last_pv, Num(capital)), Num(capital)),
         annual_return |-> annual_return,
         annual_volatility_sq |-> annual_var,
         sharpe_ratio_sq |-> sharpe_sq,
         max_drawdown |-> MaxDrawdown(pv),
         final_portfolio_value |-> last_pv]

NoMetrics ==
    [total_return |-> NaN, annual_return |-> NaN, annual_volatility_sq |-> NaN,
     sharpe_ratio_sq |-> NaN, max_drawdown |-> NaN,
     final_portfolio_value |-> NaN]

\* The columns backtest writes into its table, in the order it writes them.
BacktestColumns(df, capital) ==
    LET t1 == SetCol(df, "Portfolio_value", ConstCol(df, Num(capital)))
        t2 == SetCol(t1, "Returns", PctChange(df["Close"]))
        sr == StrategyReturns(df["Signal"], t2["Returns"])
        t3 == SetCol(t2, "Strategy_returns", sr)
        cum == CumulativeReturns(sr)
        t4 == SetCol(t3, "Cumulative_returns", cum)
    IN  SetCol(t4, "Portfolio_value", PortfolioValue(capital, cum))

\* backtest: err is the exception the call ends with, stored whether
\* self.portfolio_value was assigned before it ended, pv the column assigned.
\* Without a Signal column the call ends at the third assignment.
Backtest(data, capital) ==
    LET d == DataFrameCopy(data)
        t2 == SetCol(SetCol(d.val, "Portfolio_value",
                            ConstCol(d.val, Num(capital))),
                     "Returns", PctChange(d.val["Close"]))
    IN  IF "Signal" \notin DOMAIN data
        THEN [err |-> "KeyError", stored |-> FALSE, pv |-> <<>>, table |-> t2,
              metrics |-> NoMetrics, arg |-> CallerTable(d, data, t2)]
        ELSE LET t5 == BacktestColumns(d.val, capital)
                 pv == t5["Portfolio_value"]
             IN  IF Len(pv) = 0
                 THEN [err |-> "IndexError", stored |-> TRUE, pv |-> pv,
                       table |-> t5, metrics |-> NoMetrics,
                       arg |-> CallerTable(d, data, t5)]
                 ELSE [err |-> "none", stored |-> TRUE, pv |-> pv,
                       table |-> t5,
                       metrics |-> Metrics(capital, t5["Strategy_returns"],
                                           pv),
                       arg |-> CallerTable(d, data, t5)]

\* ------------------------------------------------------------------- state
VARIABLES
    short_window,     \* self.short_window
    long_window,      \* self.long_window
    signals,          \* self.signals: [set |-> FALSE] models None
    portfolio_value,  \* self.portfolio_value: [set |-> FALSE] models None
    input,            \* the table the caller holds and passes to the stages
    returned,         \* the table the last call handed back, None otherwise
    last,             \* the last call: its name, how it ended, what it gave
    completed         \* history: some backtest call on this instance returned

vars == <<short_window, long_window, signals, portfolio_value, input,
          returned, last, completed>>

\* ------------------------------------------------------------------ inputs
Prices == {Num(p) : p \in 1..MaxPrice}

RECURSIVE SeqsUpTo(_, _)
SeqsUpTo(S, n) ==
    IF n = 0 THEN {<<>>}
    ELSE LET shorter == SeqsUpTo(S, n - 1)
         IN  shorter \cup {Append(q, x) : q \in {r \in shorter : Len(r) = n - 1},
                                          x \in S}

\* The price series the caller loads: up to MaxBars bars.
CloseSeries == SeqsUpTo(Prices, MaxBars)

\* The series with fewer than 2 bars.
ShortSeries == SeqsUpTo(Prices, ShortBars)

PriceTables(series) == {[Close |-> c] : c \in series}

\* The signal columns generate_signals can write: 0 on the leading bars,
\* then +1 or -1 on every bar.
SignalColumns(n) ==
    {s \in SeqsUpTo({Num(-1), Num(0), Num(1)}, n) :
        /\ Len(s) = n
        /\ \A i \in 2..n : s[i] = Num(0) => s[i - 1] = Num(0)}

\* Price tables that carry such a Signal column.
SignalTables ==
    UNION {{[Close |-> c, Signal |-> s] : s \in SignalColumns(Len(c))} :
              c \in CloseSeries}

WindowArgs == 0..MaxWindow

SpanArgs == 0..MaxSpan

\* The window pairs an instance is constructed with: any pair, the intended
\* configuration (a positive short window below the long one), the defaults.
AnyWindows == WindowArgs \X WindowArgs

IntendedWindows == {w \in AnyWindows : 0 < w[1] /\ w[1] < w[2]}

DefaultWindows == {<<20, 50>>}

CapitalArgs == (-1)..MaxCapital

NoTable == [Close |-> <<>>]

None == [set |-> FALSE, df |-> NoTable]

NoValues == [set |-> FALSE, values |-> <<>>]

\* The record of a call: arg is its numeric argument (a period, the initial
\* capital), 0 when it takes none; metrics is the result set of backtest.
Call(op, err, invalid, gave, arg) ==
    [op |-> op, err |-> err, invalid |-> invalid, gave |-> gave, arg |-> arg,
     metrics |-> NoMetrics]

StageOps == {"calculate_moving_averages", "calculate_rsi", "calculate_macd",
             "calculate_bollinger_bands", "generate_signals", "backtest"}

\* ----------------------------------------------------------------- actions
\* TradingStrategy(short_window, long_window): a fresh instance.
Construct(sw, lw) ==
    /\ short_window' = sw
    /\ long_window' = lw
    /\ signals' = None
    /\ portfolio_value' = NoValues
    /\ completed' = FALSE
    /\ returned' = None
    /\ last' = Call("__init__", "none", sw <= 0 \/ lw <= 0, "instance", 0)
    /\ UNCHANGED input

\* The caller loads a price series.
Load(close) ==
    /\ input' = [Close |-> close]
    /\ returned' = None
    /\ last' = Call("load", "none", FALSE, "none", 0)
    /\ UNCHANGED <<short_window, long_window, signals, portfolio_value,
                   completed>>

\* The caller passes the table a stage handed back on to the next stage:
\* the averages to generate_signals, the signals to backtest.
Thread ==
    /\ returned.set
    /\ last.op \in {"calculate_moving_averages", "generate_signals"}
    /\ input' = returned.df
    /\ returned' = None
    /\ last' = Call("thread", "none", FALSE, "none", 0)
    /\ UNCHANGED <<short_window, long_window, signals, portfolio_value,
                   completed>>

CalculateMovingAverages ==
    \E r \in {MovingAverages(input, short_window, long_window)} :
        /\ input' = r.arg
        /\ returned' = [set |-> TRUE, df |-> r.ret]
        /\ last' = Call("calculate_moving_averages", "none",
                        short_window <= 0 \/ long_window <= 0, "table", 0)
        /\ UNCHANGED <<short_window, long_window, signals, portfolio_value,
                       completed>>

CalculateRsi(period) ==
    \E r \in {Rsi(input, period)} :
        /\ input' = r.arg
        /\ returned' = [set |-> TRUE, df |-> r.ret]
        /\ last' = Call("calculate_rsi", "none", period <= 0, "table",
                        period)
        /\ UNCHANGED <<short_window, long_window, signals, portfolio_value,
                       completed>>

CalculateMacd(fast, slow, signal) ==
    \E r \in {Macd(input, fast, slow, signal)} :
        /\ input' = r.arg
        /\ returned' = IF r.err = "none" THEN [set |-> TRUE, df |-> r.ret]
                       ELSE None
        /\ last' = Call("calculate_macd", r.err,
                        fast <= 0 \/ slow <= 0 \/ signal <= 0,
                        IF r.err = "none" THEN "table" ELSE "none", 0)
        /\ UNCHANGED <<short_window, long_window, signals, portfolio_value,
                       completed>>

CalculateBollingerBands(period) ==
    \E r \in {BollingerBands(input, period, 2)} :
        /\ input' = r.arg
        /\ returned' = [set |-> TRUE, df |-> r.ret]
        /\ last' = Call("calculate_bollinger_bands", "none", period <= 0,
                        "table", period)
        /\ UNCHANGED <<short_window, long_window, signals, portfolio_value,
                       completed>>

GenerateSignalsCall ==
    \E r \in {GenerateSignals(input)} :
        /\ input' = r.arg
        /\ signals' = IF r.err = "none" THEN [set |-> TRUE, df |-> r.ret]
                      ELSE signals
        /\ returned' = IF r.err = "none" THEN [set |-> TRUE, df |-> r.ret]
                       ELSE None
        /\ last' = Call("generate_signals", r.err, FALSE,
                        IF r.err = "none" THEN "table" ELSE "none", 0)
        /\ UNCHANGED <<short_window, long_window, portfolio_value, completed>>

BacktestCall(capital) ==
    \E r \in {Backtest(input, capital)} :
        /\ input' = r.arg
        /\ portfolio_value' = IF r.stored
                              THEN [set |-> TRUE, values |-> r.pv]
                              ELSE portfolio_value
        /\ completed' = (completed \/ r.err = "none")
        /\ returned' = None
        /\ last' = [Call("backtest", r.err, capital <= 0,
                         IF r.err = "none" THEN "metrics" ELSE "none",
                         capital) EXCEPT !.metrics = r.metrics]
        /\ UNCHANGED <<short_window, long_window, signals>>

GetTradingSignals ==
    /\ returned' = signals
    /\ last' = Call("get_trading_signals", "none", FALSE, "table", 0)
    /\ UNCHANGED <<short_window, long_window, signals, portfolio_value,
                   input, completed>>

\* get_performance_metrics: the explicit ValueError, or the IndexError of
\* .iloc[-1] on a column without bars.
PerformanceMetricsError(pv) ==
    IF ~pv.set THEN "ValueError"
    ELSE IF Len(pv.values) = 0 THEN "IndexError"
    ELSE "none"

GetPerformanceMetrics ==
    \E err \in {PerformanceMetricsError(portfolio_value)} :
        /\ returned' = None
        /\ last' = Call("get_performance_metrics", err, FALSE,
                        IF err = "none" THEN "values" ELSE "none", 0)
        /\ UNCHANGED <<short_window, long_window, signals, portfolio_value,
                       input, completed>>

\* ---------------------------------------------------------- specifications
\* A freshly constructed instance and the table the caller starts with.
Fresh(tables, windows) ==
    /\ \E w \in windows : short_window = w[1] /\ long_window = w[2]
    /\ signals = None
    /\ portfolio_value = NoValues
    /\ completed = FALSE
    /\ input \in tables
    /\ returned = None
    /\ last = Call("__init__", "none", short_window <= 0 \/ long_window <= 0,
                   "instance", 0)

\* The life of an instance: any call in any order, on short price series.
Init == Fresh(PriceTables(ShortSeries), AnyWindows)

Next ==
    \/ \E sw \in WindowArgs, lw \in WindowArgs : Construct(sw, lw)
    \/ \E c \in ShortSeries : Load(c)
    \/ Thread
    \/ CalculateMovingAverages
    \/ \E period \in WindowArgs : CalculateRsi(period)
    \/ \E fast \in SpanArgs, slow \in SpanArgs, signal \in SpanArgs :
          CalculateMacd(fast, slow, signal)
    \/ \E period \in WindowArgs : CalculateBollingerBands(period)
    \/ GenerateSignalsCall
    \/ \E capital \in CapitalArgs : BacktestCall(capital)
    \/ GetTradingSignals
    \/ GetPerformanceMetrics

Spec == Init /\ [][Next]_vars

\* The signal pipeline on one price series: averages, then signals.
SignalInit == Fresh(PriceTables(CloseSeries), AnyWindows)

SignalNext ==
    \/ CalculateMovingAverages
    \/ Thread
    \/ GenerateSignalsCall
    \/ GetTradingSignals

SignalSpec == SignalInit /\ [][SignalNext]_vars

\* backtest on every price series and every signal series over it.
BacktestInit == Fresh(SignalTables, DefaultWindows)

BacktestNext == \E capital \in CapitalArgs : BacktestCall(capital)

BacktestSpec == BacktestInit /\ [][BacktestNext]_vars

\* The four indicators on every price series.
IndicatorInit == Fresh(PriceTables(CloseSeries), IntendedWindows)

IndicatorNext ==
    \/ CalculateMovingAverages
    \/ \E period \in WindowArgs : CalculateRsi(period)
    \/ \E fast \in SpanArgs, slow \in SpanArgs, signal \in SpanArgs :
          CalculateMacd(fast, slow, signal)
    \/ \E period \in WindowArgs : CalculateBollingerBands(period)

IndicatorSpec == IndicatorInit /\ [][IndicatorNext]_vars

\* The six stages on one short price series, threaded in pipeline order.
StageInit == Fresh(PriceTables(ShortSeries), IntendedWindows)

StageNext ==
    \/ Thread
    \/ CalculateMovingAverages
    \/ \E period \in WindowArgs : CalculateRsi(period)
    \/ \E fast \in SpanArgs, slow \in SpanArgs, signal \in SpanArgs :
          CalculateMacd(fast, slow, signal)
    \/ \E period \in WindowArgs : CalculateBollingerBands(period)
    \/ GenerateSignalsCall
    \/ \E capital \in CapitalArgs : BacktestCall(capital)

StageSpec == StageInit /\ [][StageNext]_vars

\* ------------------------------------------------------------------ claims
IsZero(x) == x = Num(0)

\* a > b for two fractions, by cross-multiplication.
FracGt(a, b) == a[1] * b[2] > b[1] * a[2]

\* C1: get_performance_metrics raises if and only if no backtest call has
\* completed earlier on the instance.  The code breaks it: a backtest on a
\* table without bars assigns self.portfolio_value and then raises, and from
\* then on get_performance_metrics raises whatever completed before.
C1_RaisesIffNoBacktestCompleted ==
    last.op = "get_performance_metrics" => (last.err # "none" <=> ~completed)

\* C2: on every bar where both averages are defined, Signal is +1 exactly when
\* SMA_short > SMA_long and -1 otherwise, ties included.
C2_CrossoverSignal ==
    signals.set =>
        \A t \in 1..NumBars(signals.df) :
            LET short == signals.df["SMA_short"][t]
                long == signals.df["SMA_long"][t]
            IN  (IsFinite(short) /\ IsFinite(long)) =>
                    signals.df["Signal"][t] =
                        IF FracGt(short, long) THEN Num(1) ELSE Num(-1)

\* A tie and a bar above it in one signal table.
C2_Witness ==
    /\ signals.set
    /\ \E t \in 1..NumBars(signals.df) :
          /\ IsFinite(signals.df["SMA_short"][t])
          /\ signals.df["SMA_short"][t] = signals.df["SMA_long"][t]
          /\ signals.df["Signal"][t] = Num(-1)
    /\ \E t \in 1..NumBars(signals.df) :
          /\ IsFinite(signals.df["SMA_long"][t])
          /\ signals.df["Signal"][t] = Num(1)

Leading(df, t) == IsNaN(df["SMA_short"][t]) \/ IsNaN(df["SMA_long"][t])

MaskFrom(signal, t, v) ==
    [i \in 1..Len(signal) |-> IF i >= t THEN v ELSE signal[i]]

BacktestReturned == last.op = "backtest" /\ last.err = "none"

\* C4: the value of bar t >= 1 is the value before it (the initial capital
\* before bar 1) grown by Signal[t-1] * Return[t]; and the value of bar t is
\* the same whatever the signals from bar t on are.  Two signal series that
\* agree on bars 0..t-1 have the same series once bars t.. are overwritten,
\* so they have the same value at bar t.
C4_NoLookahead ==
    BacktestReturned =>
        LET pv == portfolio_value.values
            close == input["Close"]
            signal == input["Signal"]
        IN  /\ \A t \in 2..Len(pv) :
                  pv[t] = Mul(IF t = 2 THEN Num(last.arg) ELSE pv[t - 1],
                              Add(Num(1),
                                  Mul(signal[t - 1],
                                      Sub(Div(close[t], close[t - 1]),
                                          Num(1)))))
            /\ \A t \in 1..Len(pv), v \in {Num(-1), Num(0), Num(1)} :
                  \A alt \in {BacktestColumns(
                                 [input EXCEPT !["Signal"] =
                                                   MaskFrom(signal, t, v)],
                                 last.arg)} :
                      alt["Portfolio_value"][t] = pv[t]

\* A backtest over three bars or more whose last two signals differ and whose
\* last price moved.
C4_Witness ==
    /\ BacktestReturned
    /\ NumBars(input) >= 3
    /\ input["Signal"][NumBars(input)] # input["Signal"][NumBars(input) - 1]
    /\ input["Signal"][NumBars(input) - 1] # Num(0)
    /\ input["Close"][NumBars(input)] # input["Close"][NumBars(input) - 1]
    /\ last.arg > 0

\* C5: a stage leaves the table passed to it as it was; the columns it
\* derives are in the table it returns or caches.
C5_StagesLeaveInputUnchanged ==
    [][last'.op \in StageOps =>
          /\ input' = input
          /\ (last'.op = "calculate_moving_averages") =>
                {"SMA_short", "SMA_long"} \subseteq DOMAIN returned'.df
          /\ (last'.op = "calculate_rsi") => "RSI" \in DOMAIN returned'.df
          /\ (last'.op = "calculate_macd" /\ last'.err = "none") =>
                {"EMA_fast", "EMA_slow", "MACD", "Signal_line", "MACD_hist"}
                    \subseteq DOMAIN returned'.df
          /\ (last'.op = "calculate_bollinger_bands") =>
                {"BB_middle", "BB_upper", "BB_lower"}
                    \subseteq DOMAIN returned'.df
          /\ (last'.op = "generate_signals" /\ last'.err = "none") =>
                /\ {"Signal", "Position"} \subseteq DOMAIN signals'.df
                /\ returned' = signals'
          /\ (last'.op = "backtest" /\ last'.err = "none") =>
                /\ portfolio_value'.set
                /\ Len(portfolio_value'.values) = NumBars(input)]_vars

\* generate_signals returned a table with the signal columns, and the table
\* it was passed has none of them.
C5_Witness ==
    /\ last.op = "generate_signals"
    /\ last.err = "none"
    /\ NumBars(input) >= 1
    /\ {"Signal", "Position"} \subseteq DOMAIN returned.df
    /\ {"Signal", "Position"} \cap DOMAIN input = {}

\* C6: a call that receives a window, period or span <= 0, or an initial
\* capital <= 0, raises and gives nothing.  The code has no such check.
C6_InvalidConfigurationRejected ==
    last.invalid => (last.err # "none" /\ last.gave = "none")

ZeroOrUndefined(x) == IsZero(x) \/ IsNaN(x)

\* C7: backtest on a table with signals and fewer than 2 bars returns, and
\* every metric it returns is zero or undefined.  The code raises an
\* IndexError when the table has no bar.
C7_ShortSeriesDegenerate ==
    (last.op = "backtest" /\ last.arg > 0 /\ "Signal" \in DOMAIN input
        /\ NumBars(input) < 2) =>
        /\ last.err = "none"
        /\ \A m \in DOMAIN last.metrics : ZeroOrUndefined(last.metrics[m])

IsConstant(col) == \A i, j \in 1..Len(col) : col[i] = col[j]

\* C8 as stated: with a positive capital and a Close that never moves,
\* StrategyReturn is 0 on every bar, total_return is 0, the final value is
\* the capital and max_drawdown is 0.
C8_ConstantCloseFlat ==
    (last.op = "backtest" /\ last.arg > 0 /\ NumBars(input) >= 1
        /\ IsConstant(input["Close"])) =>
        /\ last.err = "none"
        /\ \A r \in {Backtest(input, last.arg)} :
              \A t \in 1..NumBars(input) :
                  IsZero(r.table["Strategy_returns"][t])
        /\ IsZero(last.metrics.total_return)
        /\ last.metrics.final_portfolio_value = Num(last.arg)
        /\ IsZero(last.metrics.max_drawdown)

\* C8 as amended: the same on a series of at least 2 bars, with
\* StrategyReturn 0 on every bar from bar 1 on and undefined on bar 0.
C8_ConstantCloseFlatFromBar1 ==
    (last.op = "backtest" /\ last.arg > 0 /\ NumBars(input) >= 2
        /\ IsConstant(input["Close"])) =>
        /\ last.err = "none"
        /\ \A r \in {Backtest(input, last.arg)} :
              \A t \in 1..NumBars(input) :
                  IF t = 1 THEN IsNaN(r.table["Strategy_returns"][t])
                  ELSE IsZero(r.table["Strategy_returns"][t])
        /\ IsZero(last.metrics.total_return)
        /\ last.metrics.final_portfolio_value = Num(last.arg)
        /\ IsZero(last.metrics.max_drawdown)
        /\ \A t \in 2..NumBars(input) :
              portfolio_value.values[t] = Num(last.arg)

\* A flat series of at least 2 bars held long and short in turn.
C8_Witness ==
    /\ BacktestReturned
    /\ last.arg > 0
    /\ NumBars(input) >= 2
    /\ IsConstant(input["Close"])
    /\ input["Signal"][1] = Num(1)
    /\ input["Signal"][2] = Num(-1)

\* No value of the path is below an earlier one.
NonDecreasing(pv) ==
    \A i, j \in Defined(pv) : i < j => ~FracGt(pv[i], pv[j])

\* C9: max_drawdown is <= 0, and 0 exactly when the value path never falls.
\* The code breaks it: the path it measures starts undefined on bar 0, not at
\* the initial capital, so a value of 0 or below becomes the running maximum
\* the drawdown is divided by.
C9_DrawdownNonPositive ==
    (BacktestReturned /\ last.arg > 0 /\ NumBars(input) >= 2) =>
        /\ IsFinite(last.metrics.max_drawdown)
        /\ last.metrics.max_drawdown[1] <= 0
        /\ IsZero(last.metrics.max_drawdown)
              <=> NonDecreasing(portfolio_value.values)

\* C10: for a period >= 1, on every bar t >= period the RSI is in [0, 100]; it
\* is 100 when avgLoss = 0 < avgGain and 50 when both are 0.  The code
\* divides 0 by 0 on a window without movement and leaves the RSI undefined.
C10_RsiRange ==
    (last.op = "calculate_rsi" /\ last.arg >= 1) =>
        LET delta == SeriesDiff(input["Close"])
            avgGain == RollingMean(GainOf(delta), last.arg)
            avgLoss == RollingMean(LossOf(delta), last.arg)
        IN  \A t \in (last.arg + 1)..NumBars(input) :
                LET rsi == returned.df["RSI"][t]
                IN  /\ IsFinite(rsi)
                    /\ 0 <= rsi[1]
                    /\ rsi[1] <= 100 * rsi[2]
                    /\ (IsZero(avgLoss[t]) /\ FracGt(avgGain[t], Num(0)))
                          => rsi = Num(100)
                    /\ (IsZero(avgLoss[t]) /\ IsZero(avgGain[t]))
                          => rsi = Num(50)

====
